---- MODULE Spec2Model ----
(***************************************************************************)
(* Model of dice.py: a command-line dice roller.  main() reads one line,   *)
(* parse_input() validates it, roll_dice() draws the faces, roll_art()     *)
(* assembles the rows of ASCII art and roll_art_display() prints them      *)
(* under a centred header.                                                 *)
(*                                                                         *)
(* Text is modelled as sequences of Unicode code points (32 is the space,  *)
(* 10 the newline, 126 the tilde, 48..57 the digits "0".."9", 28 the       *)
(* control character U+001C), so that strip(), int(), join() and center()  *)
(* are computed character by character.                                    *)
(***************************************************************************)
EXTENDS Integers, Sequences, FiniteSets, TLC

VARIABLES
    pc,              \* position in main(): the statement about to run, or how the run ended
    DICE_ART,        \* the art table loaded at import (line 39)
    num_dice_input,  \* main's local: the line read by input()
    dice_to_roll,    \* main's local: the value parse_input returned (0: not yet assigned)
    roll_results,    \* main's local: the list roll_dice returned
    assemble_art,    \* main's local: the list of rows roll_art returned
    prompted,        \* the prompt input() has shown
    stdout,          \* the characters print() has written
    exit_status      \* <<status>> once the process has ended, <<>> while it runs

vars == <<pc, DICE_ART, num_dice_input, dice_to_roll, roll_results,
          assemble_art, prompted, stdout, exit_status>>

(***************************************************************************)
(* Bounds of the model.                                                    *)
(***************************************************************************)
\* longest input line that is enumerated
MaxLen == 2
\* the digits "0".."MaxDigit" are enumerated in input lines (and "7")
MaxDigit == 3
\* art tables of 1..MaxHeight rows and 1..MaxWidth columns are enumerated
MaxHeight == 2
MaxWidth == 3
\* every roll of up to MaxFullRoll dice is rendered; longer rolls are sampled
MaxFullRoll == 3

(***************************************************************************)
(* Program constants.                                                      *)
(***************************************************************************)
\* randint(0, 5): the lowest and the highest face index
RandLow == 0
RandHigh == 5
\* raise SystemExit(1)
FailureStatus == 1
\* the status of a run that returns from main()
SuccessStatus == 0
\* exit_status while the process is still running: no status yet
NoExit == <<>>

DIE_FACE_SEPARATOR == <<32>>
NEWLINE == <<10>>
\* "~"
FILL == 126
\* " RESULTS "
RESULTS_TITLE == <<32, 82, 69, 83, 85, 76, 84, 83, 32>>
\* "Please enter a number from 1 to 6."
INVALID_MESSAGE ==
    <<80, 108, 101, 97, 115, 101, 32, 101, 110, 116, 101, 114, 32, 97, 32,
      110, 117, 109, 98, 101, 114, 32, 102, 114, 111, 109, 32, 49, 32, 116,
      111, 32, 54, 46>>
\* "How many dice do you want to roll? [1-6] "
PROMPT ==
    <<72, 111, 119, 32, 109, 97, 110, 121, 32, 100, 105, 99, 101, 32, 100,
      111, 32, 121, 111, 117, 32, 119, 97, 110, 116, 32, 116, 111, 32, 114,
      111, 108, 108, 63, 32, 91, 49, 45, 54, 93, 32>>
\* {"1", "2", "3", "4", "5", "6"}
WHITELIST == {<<49>>, <<50>>, <<51>>, <<52>>, <<53>>, <<54>>}

(***************************************************************************)
(* Python's text primitives, as the interpreter computes them.             *)
(***************************************************************************)
\* the characters str.isspace() holds of (code points up to U+00FF)
StrSpace == {9, 10, 11, 12, 13, 28, 29, 30, 31, 32, 133, 160}

\* the characters int() skips around a number: U+001C..U+001F, which
\* str.isspace() holds of, are not among them
IntSpace == {9, 10, 11, 12, 13, 32, 133, 160}

IsDigit(c) == c \in 48..57

RECURSIVE LStripBy(_, _)
LStripBy(space, s) ==
    IF s # <<>> /\ Head(s) \in space THEN LStripBy(space, Tail(s)) ELSE s

RECURSIVE RStripBy(_, _)
RStripBy(space, s) ==
    IF s # <<>> /\ s[Len(s)] \in space
    THEN RStripBy(space, SubSeq(s, 1, Len(s) - 1))
    ELSE s

\* input_string.strip()
strip(s) == RStripBy(StrSpace, LStripBy(StrSpace, s))

\* the digits of int()'s argument once white space and sign are removed
IntBody(s) ==
    LET t == RStripBy(IntSpace, LStripBy(IntSpace, s))
    IN  IF t # <<>> /\ Head(t) \in {43, 45} THEN Tail(t) ELSE t

IntNegative(s) ==
    LET t == LStripBy(IntSpace, s) IN t # <<>> /\ Head(t) = 45

\* int(s) returns (rather than raising ValueError): digits, with single
\* underscores allowed between them
IntValid(s) ==
    LET b == IntBody(s)
    IN  /\ b # <<>>
        /\ IsDigit(b[1]) /\ IsDigit(b[Len(b)])
        /\ \A k \in 1..Len(b) : IsDigit(b[k]) \/ b[k] = 95
        /\ \A k \in 1..(Len(b) - 1) : ~(b[k] = 95 /\ b[k + 1] = 95)

RECURSIVE DecimalValue(_, _)
DecimalValue(b, acc) ==
    IF b = <<>> THEN acc
    ELSE IF Head(b) = 95 THEN DecimalValue(Tail(b), acc)
    ELSE DecimalValue(Tail(b), 10 * acc + (Head(b) - 48))

\* the value of int(s) when it returns
IntValue(s) ==
    IF IntNegative(s) THEN 0 - DecimalValue(IntBody(s), 0)
    ELSE DecimalValue(IntBody(s), 0)

\* a join that writes the separator after every part, the last one included
RECURSIVE join_trailing(_, _)
join_trailing(sep, parts) ==
    IF parts = <<>> THEN <<>>
    ELSE parts[1] \o sep \o join_trailing(sep, Tail(parts))

\* sep.join(parts)
RECURSIVE join(_, _)
join(sep, parts) ==
    IF parts = <<>> THEN <<>>
    ELSE IF Len(parts) = 1 THEN parts[1]
    ELSE parts[1] \o sep \o join(sep, Tail(parts))

\* a run of n copies of the character c
Repeat(c, n) == [k \in 1..n |-> c]

\* a centring that puts the odd fill character on the left
center_extra_left(s, width, fillchar) ==
    IF Len(s) >= width THEN s
    ELSE LET marg == width - Len(s)
             left == marg - (marg \div 2)
         IN  Repeat(fillchar, left) \o s \o Repeat(fillchar, marg - left)

\* s.center(width, fillchar): CPython pads marg//2 on the left, plus one when
\* marg and width are both odd, and the rest on the right
center(s, width, fillchar) ==
    IF Len(s) >= width THEN s
    ELSE LET marg == width - Len(s)
             left == (marg \div 2) + (IF marg % 2 = 1 /\ width % 2 = 1 THEN 1 ELSE 0)
         IN  Repeat(fillchar, left) \o s \o Repeat(fillchar, marg - left)

(***************************************************************************)
(* The art table.                                                          *)
(***************************************************************************)
\* the characters the enumerated art tables are drawn with: o space | - _ . #
ArtChars == <<111, 32, 124, 45, 95, 46, 35>>

\* a rectangular table of six faces, h rows of w characters each; at every
\* row index the six faces differ
MakeArt(h, w) ==
    [f \in 1..6 |->
        [i \in 1..h |->
            [c \in 1..w |-> ArtChars[(((f - 1) + 2 * (i - 1) + (c - 1)) % 7) + 1]]]]

ArtTables == { MakeArt(h, w) : h \in 1..MaxHeight, w \in 1..MaxWidth }

\* DIE_HEIGHT = len(DICE_ART[1]); DIE_WIDTH = len(DICE_ART[1][0])
DIE_HEIGHT == Len(DICE_ART[2])
DIE_WIDTH == Len(DICE_ART[2][1])

(***************************************************************************)
(* The functions of dice.py.                                               *)
(***************************************************************************)
\* a test that takes any run of digits: input_string.strip().isdigit()
parse_accepts_isdigit(input_string) ==
    LET t == strip(input_string)
    IN  t # <<>> /\ \A k \in 1..Len(t) : IsDigit(t[k])

\* the test of line 76
parse_accepts(input_string) == strip(input_string) \in WHITELIST

\* random.randint(a, b): any integer of a..b
randint(a, b) == a..b

\* a roll of face values rather than face indices: randint(1, 6)
RECURSIVE roll_dice_face_values(_)
roll_dice_face_values(num_dice) ==
    IF num_dice <= 0 THEN {<<>>}
    ELSE { Append(r, d) : r \in roll_dice_face_values(num_dice - 1),
                          d \in randint(RandLow + 1, RandHigh + 1) }

\* [random.randint(0, 5) for _ in range(num_dice)]: the lists it can return
RECURSIVE roll_dice(_)
roll_dice(num_dice) ==
    IF num_dice <= 0 THEN {<<>>}
    ELSE { Append(r, d) : r \in roll_dice(num_dice - 1), d \in randint(RandLow, RandHigh) }

\* faces = [DICE_ART[face] for face in roll_results]
faces_of(results) == [j \in 1..Len(results) |-> DICE_ART[results[j] + 1]]

\* the for loop of lines 118-121, from row_idx on
RECURSIVE face_rows_from(_, _, _)
face_rows_from(faces, row_idx, face_rows) ==
    IF row_idx >= DIE_HEIGHT THEN face_rows
    ELSE LET row_components == [j \in 1..Len(faces) |-> faces[j][row_idx + 1]]
             row_string == join(DIE_FACE_SEPARATOR, row_components)
         IN  face_rows_from(faces, row_idx + 1, Append(face_rows, row_string))

roll_art(results) == face_rows_from(faces_of(results), 0, <<>>)

\* a header centred over one die instead of over the whole row
diagram_header_one_die(face_rows) == center(RESULTS_TITLE, DIE_WIDTH, FILL)

\* " RESULTS ".center(width, "~") with width = len(face_rows[0])
diagram_header(face_rows) == center(RESULTS_TITLE, Len(face_rows[1]), FILL)

\* a diagram with the header under the rows
dice_faces_diagram_header_last(face_rows) ==
    join(NEWLINE, face_rows \o <<diagram_header(face_rows)>>)

\* "\n".join([diagram_header] + face_rows)
dice_faces_diagram(face_rows) ==
    join(NEWLINE, <<diagram_header(face_rows)>> \o face_rows)

\* print(text): the text and a newline
print(out, text) == out \o text \o NEWLINE

(***************************************************************************)
(* Input lines.                                                            *)
(***************************************************************************)
\* space, U+001C, "+", "-", ".", "a", "7" and the digits "0".."MaxDigit"
InputChars == {32, 28, 43, 45, 46, 97, 55} \cup { 48 + d : d \in 0..MaxDigit }

InputStrings == UNION { [1..n -> InputChars] : n \in 0..MaxLen }

(***************************************************************************)
(* main(), one action per statement.                                       *)
(***************************************************************************)
Init ==
    /\ pc = "input"
    /\ DICE_ART \in ArtTables
    /\ num_dice_input = <<>>
    /\ dice_to_roll = 0
    /\ roll_results = <<>>
    /\ assemble_art = <<>>
    /\ prompted = <<>>
    /\ stdout = <<>>
    /\ exit_status = NoExit

\* line 52: num_dice_input = input(PROMPT); the prompt is kept apart from
\* what print() writes
ReadInput ==
    /\ pc = "input"
    /\ prompted' = PROMPT
    /\ \E s \in InputStrings : num_dice_input' = s
    /\ pc' = "parse"
    /\ UNCHANGED <<DICE_ART, dice_to_roll, roll_results, assemble_art, stdout, exit_status>>

\* line 53 and parse_input, lines 76-80.  int() raising ValueError is not
\* caught anywhere: the run ends with a traceback and status 1.
ParseInput ==
    /\ pc = "parse"
    /\ IF parse_accepts(num_dice_input)
       THEN IF IntValid(num_dice_input)
            THEN /\ dice_to_roll' = IntValue(num_dice_input)
                 /\ pc' = "roll"
                 /\ UNCHANGED <<stdout, exit_status>>
            ELSE /\ pc' = "ValueError"
                 /\ exit_status' = <<FailureStatus>>
                 /\ UNCHANGED <<dice_to_roll, stdout>>
       ELSE /\ stdout' = print(stdout, INVALID_MESSAGE)
            /\ pc' = "SystemExit"
            /\ exit_status' = <<FailureStatus>>
            /\ UNCHANGED dice_to_roll
    /\ UNCHANGED <<DICE_ART, num_dice_input, roll_results, assemble_art, prompted>>

\* line 54: roll_results = roll_dice(dice_to_roll)
RollDice ==
    /\ pc = "roll"
    /\ \E r \in roll_dice(dice_to_roll) : roll_results' = r
    /\ pc' = "art"
    /\ UNCHANGED <<DICE_ART, num_dice_input, dice_to_roll, assemble_art, prompted, stdout,
                   exit_status>>

\* line 55: assemble_art = roll_art(roll_results)
RollArt ==
    /\ pc = "art"
    /\ assemble_art' = roll_art(roll_results)
    /\ pc' = "display"
    /\ UNCHANGED <<DICE_ART, num_dice_input, dice_to_roll, roll_results, prompted, stdout,
                   exit_status>>

\* line 56: roll_art_display(assemble_art), then main returns
RollArtDisplay ==
    /\ pc = "display"
    /\ stdout' = print(stdout, dice_faces_diagram(assemble_art))
    /\ pc' = "done"
    /\ exit_status' = <<SuccessStatus>>
    /\ UNCHANGED <<DICE_ART, num_dice_input, dice_to_roll, roll_results, assemble_art,
                   prompted>>

Next == ReadInput \/ ParseInput \/ RollDice \/ RollArt \/ RollArtDisplay

Spec == Init /\ [][Next]_vars

(***************************************************************************)
(* roll_dice alone, applied to every count parse_input can return.         *)
(***************************************************************************)
\* the values of int() on the strings of WHITELIST
DiceCounts == { Head(s) - 48 : s \in WHITELIST }

InitRoll ==
    /\ pc = "roll"
    /\ DICE_ART = MakeArt(MaxHeight, MaxWidth)
    /\ dice_to_roll \in DiceCounts
    /\ num_dice_input = <<48 + dice_to_roll>>
    /\ roll_results = <<>>
    /\ assemble_art = <<>>
    /\ prompted = PROMPT
    /\ stdout = <<>>
    /\ exit_status = NoExit

NextRoll == RollDice

SpecRoll == InitRoll /\ [][NextRoll]_vars

(***************************************************************************)
(* roll_art and roll_art_display alone, applied to bounded sets of rolls   *)
(* and art tables.                                                         *)
(***************************************************************************)
\* every roll of 1..MaxFullRoll dice, and for each length up to six the rolls
\* a, a+b, a+2b, ... (mod 6): constant, rising, falling and alternating ones
RenderRolls ==
    (UNION { [1..n -> RandLow..RandHigh] : n \in 1..MaxFullRoll })
    \cup { [j \in 1..n |-> (a + b * (j - 1)) % 6] :
              n \in DiceCounts, a \in RandLow..RandHigh, b \in RandLow..RandHigh }

InitRender ==
    /\ pc = "art"
    /\ DICE_ART \in ArtTables
    /\ roll_results \in RenderRolls
    /\ dice_to_roll = Len(roll_results)
    /\ num_dice_input = <<48 + dice_to_roll>>
    /\ assemble_art = <<>>
    /\ prompted = PROMPT
    /\ stdout = <<>>
    /\ exit_status = NoExit

NextRender == RollArt \/ RollArtDisplay

SpecRender == InitRender /\ [][NextRender]_vars

(***************************************************************************)
(* What was printed, read back from stdout.                                *)
(***************************************************************************)
\* the lines of s, as str.splitlines() cuts them at the newlines
RECURSIVE LinesFrom(_, _, _)
LinesFrom(s, cur, acc) ==
    IF s = <<>> THEN (IF cur = <<>> THEN acc ELSE Append(acc, cur))
    ELSE IF Head(s) = 10 THEN LinesFrom(Tail(s), <<>>, Append(acc, cur))
    ELSE LinesFrom(Tail(s), Append(cur, Head(s)), acc)

PrintedLines == LinesFrom(stdout, <<>>, <<>>)

\* the number of fill characters s starts with, and ends with
RECURSIVE LeadingFill(_)
LeadingFill(s) ==
    IF s # <<>> /\ Head(s) = FILL THEN 1 + LeadingFill(Tail(s)) ELSE 0

RECURSIVE TrailingFill(_)
TrailingFill(s) ==
    IF s # <<>> /\ s[Len(s)] = FILL
    THEN 1 + TrailingFill(SubSeq(s, 1, Len(s) - 1))
    ELSE 0

\* the line is " RESULTS " between two runs of the fill character
IsHeaderLine(line) ==
    line = Repeat(FILL, LeadingFill(line)) \o RESULTS_TITLE
           \o Repeat(FILL, TrailingFill(line))

\* the width the n rolled faces take side by side: n * DIE_WIDTH + (n - 1)
RowWidth == Len(roll_results) * DIE_WIDTH + (Len(roll_results) - 1)

Parsed == pc \notin {"input", "parse"}
Rolled == pc \in {"art", "display", "done"}
Rendered == pc \in {"display", "done"}

(***************************************************************************)
(* C1: parse_input accepts a string exactly when the string without its    *)
(* leading and trailing white space is one of "1".."6", and it returns     *)
(* the integer that digit denotes, which is in 1..6.                       *)
(***************************************************************************)
C1_AcceptsWhitelistedAndReturnsInt ==
    Parsed =>
        IF strip(num_dice_input) \in WHITELIST
        THEN /\ pc \notin {"SystemExit", "ValueError"}
             /\ dice_to_roll = Head(strip(num_dice_input)) - 48
             /\ dice_to_roll \in 1..6
        ELSE pc = "SystemExit"

(***************************************************************************)
(* C2: for an input that is not accepted the run prints the "enter a       *)
(* number from 1 to 6" message and nothing else, ends with a non-zero      *)
(* exit status, and rolls and renders nothing.                             *)
(***************************************************************************)
C2_RejectedInputFailsWithoutRolling ==
    (Parsed /\ strip(num_dice_input) \notin WHITELIST) =>
        /\ pc = "SystemExit"
        /\ PrintedLines = <<INVALID_MESSAGE>>
        /\ exit_status # NoExit /\ exit_status[1] # 0
        /\ dice_to_roll = 0
        /\ roll_results = <<>>
        /\ assemble_art = <<>>

\* the input "0" has been rejected
C2_Witness ==
    /\ pc = "SystemExit"
    /\ num_dice_input = <<48>>
    /\ exit_status = <<1>>

(***************************************************************************)
(* C3: for n in 1..6 roll_dice(n) returns n integers, each in 0..5, and    *)
(* every sequence of n integers of 0..5 is a possible result.              *)
(***************************************************************************)
C3_RollLengthRangeAndCoverage ==
    /\ pc = "roll" => roll_dice(dice_to_roll) = [1..dice_to_roll -> 0..5]
    /\ Rolled => /\ Len(roll_results) = dice_to_roll
                 /\ \A j \in 1..Len(roll_results) : roll_results[j] \in 0..5

\* six dice have been rolled, in an order that is not sorted
C3_Witness ==
    /\ pc = "art"
    /\ dice_to_roll = 6
    /\ roll_results = <<5, 0, 3, 3, 1, 2>>

(***************************************************************************)
(* C4: roll_art returns DIE_HEIGHT lines, and line i holds row i of the    *)
(* rolled faces from left to right in roll order, one space between two    *)
(* neighbours and no separator before the first or after the last.         *)
(***************************************************************************)
C4_RowsAreFacesInRollOrder ==
    Rendered =>
        /\ Len(assemble_art) = DIE_HEIGHT
        /\ \A i \in 1..DIE_HEIGHT :
              LET line == assemble_art[i]
                  n == Len(roll_results)
              IN  /\ Len(line) = RowWidth
                  /\ \A j \in 1..n : \A c \in 1..DIE_WIDTH :
                        line[(j - 1) * (DIE_WIDTH + 1) + c]
                            = DICE_ART[roll_results[j] + 1][i][c]
                  /\ \A j \in 1..(n - 1) : line[j * (DIE_WIDTH + 1)] = 32

\* three or more faces, not in sorted order, of two or more rows were rendered
C4_Witness ==
    /\ pc = "display"
    /\ Len(roll_results) >= 3
    /\ roll_results[1] > roll_results[2]
    /\ DIE_HEIGHT >= 2

(***************************************************************************)
(* C5, as claimed: the header line is as long as the first rendered row,   *)
(* which is n * DIE_WIDTH + (n - 1) characters long.                       *)
(***************************************************************************)
C5_HeaderAsLongAsRow ==
    pc = "done" =>
        /\ Len(assemble_art[1]) = RowWidth
        /\ Len(PrintedLines[1]) = Len(assemble_art[1])

(***************************************************************************)
(* C5, amended: the first rendered row is n * DIE_WIDTH + (n - 1)          *)
(* characters long, and the header line is as long as that row when the    *)
(* row has at least the 9 characters of " RESULTS ", and 9 characters      *)
(* long when the row is shorter.                                           *)
(***************************************************************************)
C5_HeaderAsLongAsRowOrTitle ==
    pc = "done" =>
        /\ Len(assemble_art[1]) = RowWidth
        /\ Len(PrintedLines[1]) =
              IF RowWidth >= Len(RESULTS_TITLE) THEN RowWidth ELSE Len(RESULTS_TITLE)

\* a diagram wider than the title was printed
C5_Witness ==
    /\ pc = "done"
    /\ RowWidth > Len(RESULTS_TITLE)
    /\ Len(roll_results) >= 2

(***************************************************************************)
(* C6, as claimed: the header is " RESULTS " between two runs of "~"       *)
(* whose lengths differ by at most one, and whenever the row width minus   *)
(* 9 is odd the right run is one longer than the left run.                 *)
(***************************************************************************)
C6_OddPaddingGoesRight ==
    pc = "done" =>
        LET header == PrintedLines[1]
            left == LeadingFill(header)
            right == TrailingFill(header)
        IN  /\ IsHeaderLine(header)
            /\ right - left \in {-1, 0, 1}
            /\ (Len(assemble_art[1]) - 9) % 2 = 1 => right = left + 1

(***************************************************************************)
(* C6, amended: the header is " RESULTS " between two runs of "~" whose    *)
(* lengths differ by at most one, and whenever the row is at least 9       *)
(* characters wide and the row width minus 9 is odd the right run is one   *)
(* longer than the left run.                                               *)
(***************************************************************************)
C6_OddPaddingGoesRightWhenPadded ==
    pc = "done" =>
        LET header == PrintedLines[1]
            left == LeadingFill(header)
            right == TrailingFill(header)
            width == Len(assemble_art[1])
        IN  /\ IsHeaderLine(header)
            /\ right - left \in {-1, 0, 1}
            /\ (width >= 9 /\ (width - 9) % 2 = 1) => right = left + 1

\* a header with an odd number of fill characters was printed
C6_Witness ==
    /\ pc = "done"
    /\ Len(assemble_art[1]) > 9
    /\ (Len(assemble_art[1]) - 9) % 2 = 1
    /\ TrailingFill(PrintedLines[1]) >= 2

(***************************************************************************)
(* C8: a run that returns from main has printed DIE_HEIGHT + 1 lines, the  *)
(* header line first and then the rendered rows in increasing row order,   *)
(* and its exit status is 0.                                               *)
(***************************************************************************)
C8_HeaderThenRowsThenSuccess ==
    pc = "done" =>
        /\ exit_status = <<0>>
        /\ stdout # <<>> /\ stdout[Len(stdout)] = 10
        /\ Len(PrintedLines) = DIE_HEIGHT + 1
        /\ IsHeaderLine(PrintedLines[1])
        /\ \A i \in 1..DIE_HEIGHT : PrintedLines[i + 1] = assemble_art[i]

\* a diagram of two or more rows that differ was printed for an accepted input
C8_Witness ==
    /\ pc = "done"
    /\ strip(num_dice_input) \in WHITELIST
    /\ DIE_HEIGHT >= 2
    /\ assemble_art[1] # assemble_art[2]
    /\ Len(roll_results) >= 2

(***************************************************************************)
(* C9: every result in the list roll_dice returns is an integer between    *)
(* 1 and 6 inclusive.                                                      *)
(***************************************************************************)
C9_ResultsAreFaceValues ==
    Rolled => \A j \in 1..Len(roll_results) : roll_results[j] \in 1..6

(***************************************************************************)
(* C10: a run is one pass that ends in one of two ways: the diagram was    *)
(* printed after parsing, rolling and rendering once each, or the input    *)
(* was invalid, the message was printed and nothing was rolled.            *)
(***************************************************************************)
C10_RunEndsInOneOfTwoStates ==
    pc \notin {"input", "parse", "roll", "art", "display"} =>
        \/ /\ pc = "done"
           /\ exit_status = <<0>>
           /\ dice_to_roll \in 1..6
           /\ Len(roll_results) = dice_to_roll
           /\ Len(PrintedLines) = Len(assemble_art) + 1
        \/ /\ pc = "SystemExit"
           /\ exit_status = <<1>>
           /\ PrintedLines = <<INVALID_MESSAGE>>
           /\ roll_results = <<>>

====
